---- MODULE Spec2Model ----
(***************************************************************************)
(* A model of the chat client of rag_app: the conversation store of        *)
(* hooks/useChatContext.tsx (ChatProvider) and the streaming client of     *)
(* lib/api-service.ts (sendStreamingChatMessage, parseSSEData).            *)
(*                                                                         *)
(* Strings are sequences of one-character strings, so that split, trim,    *)
(* startsWith, replace and JSON.parse are computed on characters.          *)
(***************************************************************************)
EXTENDS Integers, Sequences, FiniteSets, TLC

(***************************************************************************)
(* Bounds of the model.                                                    *)
(***************************************************************************)
\* frames the server writes in one response stream
MaxFrames == 2
\* sendMessage calls started in one run
MaxSends == 2
\* sidebar operations and reloads in one run
MaxOps == 2
\* network reads of one response in the store-level specification
MaxReads == 1
\* files attached to one sendMessage call
MaxFiles == 1
\* the retries argument of retry
MaxRetries == 3
\* the delay argument of retry
MaxDelay == 2
\* candidates in one answer of the vector-search service
MaxDocs == 2
\* certainties are multiples of a unit, from 0 to MaxScore units
MaxScore == 2

(***************************************************************************)
(* Characters and string helpers (JavaScript String methods).              *)
(***************************************************************************)
NL == "\n"
SP == " "
QUOTE == "\""

IsWhite(c) == c \in {NL, SP}

\* s.startsWith(p)
StartsWith(s, p) == Len(s) >= Len(p) /\ SubSeq(s, 1, Len(p)) = p

\* s.endsWith(p)
EndsWith(s, p) == Len(s) >= Len(p) /\ SubSeq(s, Len(s) - Len(p) + 1, Len(s)) = p

\* s with its first n characters removed
Drop(s, n) == SubSeq(s, n + 1, Len(s))

RECURSIVE TrimStart(_)
TrimStart(s) == IF s /= <<>> /\ IsWhite(Head(s)) THEN TrimStart(Tail(s)) ELSE s

RECURSIVE TrimEnd(_)
TrimEnd(s) ==
    IF s /= <<>> /\ IsWhite(s[Len(s)]) THEN TrimEnd(SubSeq(s, 1, Len(s) - 1)) ELSE s

\* s.trim()
Trim(s) == TrimEnd(TrimStart(s))

\* s.split('\n\n'): the pieces between the leftmost non-overlapping delimiters
RECURSIVE SplitBlank(_, _)
SplitBlank(s, cur) ==
    IF s = <<>> THEN <<cur>>
    ELSE IF StartsWith(s, <<NL, NL>>) THEN <<cur>> \o SplitBlank(Drop(s, 2), <<>>)
    ELSE SplitBlank(Tail(s), Append(cur, Head(s)))

RECURSIVE Concat(_)
Concat(ss) == IF ss = <<>> THEN <<>> ELSE Head(ss) \o Concat(Tail(ss))

(***************************************************************************)
(* The wire format written by the streaming endpoint.                      *)
(***************************************************************************)
DataPrefix == <<"d", "a", "t", "a", ":", SP>>
DoneLit == <<"[", "D", "O", "N", "E", "]">>
TextOpen == <<"{", QUOTE, "t", "e", "x", "t", QUOTE, ":", QUOTE>>
ErrorOpen == <<"{", QUOTE, "e", "r", "r", "o", "r", QUOTE, ":", QUOTE>>
JsonClose == <<QUOTE, "}">>

\* characters of the texts and error messages of the model (none needs a JSON escape)
Letters == {"a", "b", "e"}

\* the frames of the model: a text frame, an error frame, the end marker
Frames ==
    { [kind |-> "text", v |-> <<"a">>], [kind |-> "text", v |-> <<"b">>],
      [kind |-> "error", v |-> <<"e">>], [kind |-> "done", v |-> <<>>] }

\* `data: ${JSON.stringify({ text })}\n\n`, `data: ${JSON.stringify({ error })}\n\n`,
\* 'data: [DONE]\n\n'
Encode(f) ==
    DataPrefix \o
    (CASE f.kind = "text" -> TextOpen \o f.v \o JsonClose
       [] f.kind = "error" -> ErrorOpen \o f.v \o JsonClose
       [] OTHER -> DoneLit)
    \o <<NL, NL>>

RECURSIVE EncodeAll(_)
EncodeAll(fs) == IF fs = <<>> THEN <<>> ELSE Encode(Head(fs)) \o EncodeAll(Tail(fs))

(***************************************************************************)
(* The client's decoding of one network read.                              *)
(***************************************************************************)
ParseFailure == <<"Failed to parse streaming data">>

IsLetters(s) == \A i \in 1..Len(s) : s[i] \in Letters

\* JSON.parse on the documents this wire can hold: {"text":"..."} and {"error":"..."}
\* parse to an object, every other string reached here (a fragment of a frame, a
\* payload still carrying its "data: " prefix) is a syntax error.
JsonParse(data) ==
    IF StartsWith(data, TextOpen) /\ EndsWith(data, JsonClose)
          /\ Len(data) >= Len(TextOpen) + Len(JsonClose)
          /\ IsLetters(SubSeq(data, Len(TextOpen) + 1, Len(data) - Len(JsonClose)))
    THEN [ok |-> TRUE, kind |-> "text",
          v |-> SubSeq(data, Len(TextOpen) + 1, Len(data) - Len(JsonClose))]
    ELSE IF StartsWith(data, ErrorOpen) /\ EndsWith(data, JsonClose)
          /\ Len(data) >= Len(ErrorOpen) + Len(JsonClose)
          /\ IsLetters(SubSeq(data, Len(ErrorOpen) + 1, Len(data) - Len(JsonClose)))
    THEN [ok |-> TRUE, kind |-> "error",
          v |-> SubSeq(data, Len(ErrorOpen) + 1, Len(data) - Len(JsonClose))]
    ELSE [ok |-> FALSE, kind |-> "none", v |-> <<>>]

\* parseSSEData: null for [DONE], the parsed object, or an error object when
\* JSON.parse throws
parseSSEData(data) ==
    IF data = DoneLit THEN [kind |-> "null", v |-> <<>>]
    ELSE IF JsonParse(data).ok THEN [kind |-> JsonParse(data).kind, v |-> JsonParse(data).v]
    ELSE [kind |-> "error", v |-> ParseFailure]

\* chunk.split('\n\n').filter(line => line.trim().startsWith('data: '))
RECURSIVE FilterData(_)
FilterData(pieces) ==
    IF pieces = <<>> THEN <<>>
    ELSE (IF StartsWith(Trim(Head(pieces)), DataPrefix) THEN <<Head(pieces)>> ELSE <<>>)
         \o FilterData(Tail(pieces))

EventsOf(chunk) == FilterData(SplitBlank(chunk, <<>>))

\* event.replace(/^data: /, '').trim()
DataOf(event) ==
    Trim(IF StartsWith(event, DataPrefix) THEN Drop(event, Len(DataPrefix)) ELSE event)

\* The for loop over the events of one read: the texts handed to onChunk, in order,
\* whether the loop threw, and whether it left at the end marker.
RECURSIVE ProcessEvents(_, _)
ProcessEvents(events, texts) ==
    IF events = <<>> THEN [texts |-> texts, threw |-> FALSE, sawDone |-> FALSE]
    ELSE LET data == DataOf(Head(events))
             ev == parseSSEData(data)
         IN  IF data = <<>> THEN ProcessEvents(Tail(events), texts)
             ELSE IF ev.kind = "null"
                  THEN [texts |-> texts, threw |-> FALSE, sawDone |-> TRUE]
             ELSE IF ev.kind = "text" /\ ev.v /= <<>>
                  THEN ProcessEvents(Tail(events), Append(texts, ev.v))
             ELSE IF ev.kind = "error" /\ ev.v /= <<>>
                  THEN [texts |-> texts, threw |-> TRUE, sawDone |-> FALSE]
             ELSE ProcessEvents(Tail(events), texts)

ProcessChunk(chunk) == ProcessEvents(EventsOf(chunk), <<>>)

(***************************************************************************)
(* The conversation store: ChatState and the pure state transitions that   *)
(* the setState updaters of ChatProvider compute.                          *)
(***************************************************************************)
\* activeConversationId: null
NoId == 0
\* an id that names no conversation (an argument a caller may pass)
UnknownId == NoId - 1

NewTitle == <<"New Conversation">>
RenamedTitle == <<"Renamed">>
ErrorContent == <<"Sorry, an error occurred while processing your request.">>
ConfirmationContent == <<"File uploaded and processed successfully.">>

\* the useState initial value
InitialState ==
    [messages |-> <<>>, isLoading |-> FALSE, uploadedFiles |-> <<>>,
     activeConversationId |-> NoId, conversations |-> <<>>,
     isInitialized |-> FALSE, servicesReady |-> FALSE]

newConversation(id) == [id |-> id, title |-> NewTitle, messageIds |-> <<>>]

Message(id, role, content) == [id |-> id, role |-> role, content |-> content]

ConvIds(convs) == {convs[i].id : i \in 1..Len(convs)}
MsgIds(msgs) == {msgs[i].id : i \in 1..Len(msgs)}
SeqRange(s) == {s[i] : i \in 1..Len(s)}

\* content.slice(0, 30) + (content.length > 30 ? '...' : '')
TitleLimit == 30
TitleOf(content) ==
    SubSeq(content, 1, IF Len(content) < TitleLimit THEN Len(content) ELSE TitleLimit)
    \o (IF Len(content) > TitleLimit THEN <<".", ".", ".">> ELSE <<>>)

\* the updater that appends the user message and sets isLoading
UserAppended(st, id, content) ==
    [st EXCEPT
        !.conversations = [i \in 1..Len(st.conversations) |->
            LET conv == st.conversations[i]
            IN  IF conv.id = st.activeConversationId
                THEN [conv EXCEPT !.messageIds = Append(conv.messageIds, id),
                                  !.title = IF Len(conv.messageIds) = 0
                                            THEN TitleOf(content) ELSE conv.title]
                ELSE conv],
        !.messages = Append(st.messages, Message(id, "user", content)),
        !.isLoading = TRUE]

\* the id is put in front of the conversation's ids
AssistantPrepended(st, id, content) ==
    [st EXCEPT
        !.conversations = [i \in 1..Len(st.conversations) |->
            LET conv == st.conversations[i]
            IN  IF conv.id = st.activeConversationId
                THEN [conv EXCEPT !.messageIds = <<id>> \o conv.messageIds]
                ELSE conv],
        !.messages = Append(st.messages, Message(id, "assistant", content))]

\* the updaters that append an assistant message (upload confirmation, streaming
\* placeholder, failure message) to the conversation that is active when they run
AssistantAppended(st, id, content) ==
    [st EXCEPT
        !.conversations = [i \in 1..Len(st.conversations) |->
            LET conv == st.conversations[i]
            IN  IF conv.id = st.activeConversationId
                THEN [conv EXCEPT !.messageIds = Append(conv.messageIds, id)]
                ELSE conv],
        !.messages = Append(st.messages, Message(id, "assistant", content))]

FileAdded(st, id) == [st EXCEPT !.uploadedFiles = Append(st.uploadedFiles, [id |-> id])]

\* the onChunk updater: the message responseId gets the accumulated response text
ContentUpdated(st, responseId, responseText) ==
    [st EXCEPT !.messages = [i \in 1..Len(st.messages) |->
        LET msg == st.messages[i]
        IN  IF msg.id = responseId THEN [msg EXCEPT !.content = responseText] ELSE msg]]

\* the finally block of sendMessage
LoadingCleared(st) == [st EXCEPT !.isLoading = FALSE]

\* allMessageIds: the ids some conversation refers to
ReferencedFirstOnly(convs) ==
    IF convs = <<>> THEN {} ELSE SeqRange(convs[1].messageIds)
Referenced(convs) == UNION {SeqRange(convs[i].messageIds) : i \in 1..Len(convs)}

\* prev.messages.filter(msg => allMessageIds.has(msg.id))
KeepAll(msgs, convs) == msgs
KeepReferenced(msgs, convs) == SelectSeq(msgs, LAMBDA msg : msg.id \in Referenced(convs))

Cleared(st) ==
    LET updated == [i \in 1..Len(st.conversations) |->
            LET conv == st.conversations[i]
            IN  IF conv.id = st.activeConversationId
                THEN [conv EXCEPT !.messageIds = <<>>, !.title = NewTitle]
                ELSE conv]
    IN  [st EXCEPT !.messages = KeepReferenced(st.messages, updated),
                   !.conversations = updated]

Started(st, id) ==
    [st EXCEPT !.activeConversationId = id,
               !.conversations = Append(st.conversations, newConversation(id))]

Switched(st, conversationId) == [st EXCEPT !.activeConversationId = conversationId]

\* the conversations left by deleteConversation: the others, or one new conversation
Remaining(convs, conversationId, freshId) ==
    LET others == SelectSeq(convs, LAMBDA conv : conv.id /= conversationId)
    IN  IF Len(others) = 0 THEN <<newConversation(freshId)>> ELSE others

ActiveKept(prevActive, conversationId, updated) == prevActive
ActiveAfterDelete(prevActive, conversationId, updated) ==
    IF prevActive = conversationId THEN updated[1].id ELSE prevActive

Deleted(st, conversationId, freshId) ==
    LET updated == Remaining(st.conversations, conversationId, freshId)
    IN  [st EXCEPT
            !.activeConversationId =
                ActiveAfterDelete(st.activeConversationId, conversationId, updated),
            !.conversations = updated,
            !.messages = KeepReferenced(st.messages, updated)]

Renamed(st, conversationId, newTitle) ==
    [st EXCEPT !.conversations = [i \in 1..Len(st.conversations) |->
        LET conv == st.conversations[i]
        IN  IF conv.id = conversationId THEN [conv EXCEPT !.title = newTitle] ELSE conv]]

\* useActiveConversation: the active conversation and its messages
useActiveConversation(st) ==
    LET found == SelectSeq(st.conversations,
                           LAMBDA conv : conv.id = st.activeConversationId)
    IN  IF found = <<>> THEN [has |-> FALSE, messages |-> <<>>]
        ELSE [has |-> TRUE, conversation |-> found[1],
              messages |-> SelectSeq(st.messages,
                              LAMBDA msg : msg.id \in SeqRange(found[1].messageIds))]

(***************************************************************************)
(* Persistence: the four localStorage keys, the save effect, the load      *)
(* effect.                                                                 *)
(***************************************************************************)
EmptyStorage ==
    [conversations |-> [has |-> FALSE, v |-> <<>>],
     active |-> [has |-> FALSE, v |-> NoId],
     messages |-> [has |-> FALSE, v |-> <<>>],
     files |-> [has |-> FALSE, v |-> <<>>]]

\* the save effect: each key is written only when its collection is non-empty
SaveEffect(old, st) ==
    IF ~st.isInitialized THEN old
    ELSE [conversations |-> IF Len(st.conversations) > 0
                            THEN [has |-> TRUE, v |-> st.conversations]
                            ELSE old.conversations,
          active |-> IF st.activeConversationId /= NoId
                     THEN [has |-> TRUE, v |-> st.activeConversationId]
                     ELSE old.active,
          messages |-> IF Len(st.messages) > 0
                       THEN [has |-> TRUE, v |-> st.messages]
                       ELSE old.messages,
          files |-> IF Len(st.uploadedFiles) > 0
                    THEN [has |-> TRUE, v |-> st.uploadedFiles]
                    ELSE old.files]

\* the load effect: the saved collections, and a new conversation if none is saved
Loaded(sto, freshId) ==
    LET convs == IF sto.conversations.has THEN sto.conversations.v ELSE <<>>
        active == IF sto.active.has THEN sto.active.v ELSE NoId
        msgs == IF sto.messages.has THEN sto.messages.v ELSE <<>>
        files == IF sto.files.has THEN sto.files.v ELSE <<>>
    IN  IF Len(convs) = 0
        THEN [messages |-> msgs, isLoading |-> FALSE, uploadedFiles |-> files,
              activeConversationId |-> freshId,
              conversations |-> <<newConversation(freshId)>>,
              isInitialized |-> TRUE, servicesReady |-> FALSE]
        ELSE [messages |-> msgs, isLoading |-> FALSE, uploadedFiles |-> files,
              activeConversationId |-> IF active /= NoId THEN active ELSE convs[1].id,
              conversations |-> convs,
              isInitialized |-> TRUE, servicesReady |-> FALSE]

(***************************************************************************)
(* checkServices: the health report of the client, then the direct check   *)
(* or the schema initialisation. Each operator is the code between two     *)
(* awaits: the state it leaves, where it suspends next, what it returns.   *)
(***************************************************************************)
\* what apiService.checkServicesHealth resolves to: /api/health answers 200 only
\* when both services are up, and every other answer ends, after the retries, in
\* the all-false report
HealthReports ==
    { [weaviate |-> TRUE, ollama |-> TRUE, schema |-> TRUE, allHealthy |-> TRUE],
      [weaviate |-> TRUE, ollama |-> TRUE, schema |-> FALSE, allHealthy |-> TRUE],
      [weaviate |-> FALSE, ollama |-> FALSE, schema |-> FALSE, allHealthy |-> FALSE] }

CheckHealth(st, report) ==
    [st |-> [st EXCEPT !.servicesReady = report.allHealthy],
     next |-> IF ~report.allHealthy THEN "direct"
              ELSE IF report.weaviate /\ report.ollama /\ ~report.schema THEN "schema"
              ELSE "return",
     ret |-> report.allHealthy]

\* after checkDirectServiceHealth, reached with the all-false report
CheckDirect(st, ollama) ==
    IF ollama THEN [st |-> [st EXCEPT !.servicesReady = TRUE], next |-> "return", ret |-> TRUE]
    ELSE [st |-> st, next |-> "return", ret |-> FALSE]

\* after initializeSchema, reached with a report that is allHealthy
CheckSchema(st, initialized) ==
    IF initialized
    THEN [st |-> [st EXCEPT !.servicesReady = TRUE], next |-> "return", ret |-> TRUE]
    ELSE [st |-> st, next |-> "return", ret |-> TRUE]

(***************************************************************************)
(* sendMessage: one record per call. Each operator below is the code run   *)
(* between two awaits; it yields the store state and the call's record.    *)
(***************************************************************************)
\* state: the ChatState of ChatProvider. storage: localStorage. turns: the calls of
\* sendMessage. boot: the checkServices call of the mount effect. nConvs: the
\* conversations created so far. nOps: the sidebar operations and reloads so far.
\* hist, observe: records for the properties. call: one call of a helper or of a
\* server route, in the specifications that examine such a call alone.
VARIABLES state, storage, turns, boot, nConvs, nOps, hist, observe, call

Turns == 1..MaxSends

\* uuidv4(): every call yields an id used nowhere else. The ids drawn by call t of
\* sendMessage are t * IdBase + 1 (user message), + 2 (streaming placeholder),
\* + 3 (failure message), then two per attached file (file record, confirmation);
\* the n-th conversation created has the id n * IdBase * IdBase.
IdBase == 10
UserId(t) == t * IdBase + 1
ResponseId(t) == t * IdBase + 2
ErrorId(t) == t * IdBase + 3
FileId(t, i) == t * IdBase + 2 + 2 * i
ConfirmationId(t, i) == t * IdBase + 3 + 2 * i
ConversationId(n) == n * IdBase * IdBase

\* pc: where the call is suspended. content, files, responseText are the call's
\* locals. wire, frames: the response bytes not yet read, and the frames the server
\* wrote. The other fields record what happened, for the properties.
\* no request has been sent
NoRequest == [endpoint |-> "none", message |-> <<>>, messages |-> <<>>, useRag |-> FALSE]

\* previousMessages.map(msg => ({ role, content }))
apiMessages(previousMessages) ==
    [k \in 1..Len(previousMessages) |->
        [role |-> previousMessages[k].role, content |-> previousMessages[k].content]]

\* the body of the POST to /api/chat/streaming. conversationMessages is computed
\* from the state the call of sendMessage closed over.
StreamingRequest(content, conversationMessages) ==
    [endpoint |-> "streaming", message |-> content,
     messages |-> apiMessages(conversationMessages), useRag |-> TRUE]

NewTurn ==
    [pc |-> "new", content |-> <<>>, files |-> 0, responseText |-> <<>>,
     frames |-> <<>>, wire |-> <<>>, reads |-> 0,
     conv0 |-> NoId, chunks |-> <<>>, sawDone |-> FALSE, late |-> FALSE,
     seen |-> <<>>, request |-> NoRequest,
     rejected |-> FALSE, outcome |-> "none"]

InFlight(tr) == tr.pc \notin {"new", "done"}

\* the call has returned: its locals are gone (what happened is kept only in the
\* specifications that observe one call)
Returned(tr, outcome) ==
    IF observe
    THEN [tr EXCEPT !.pc = "done", !.outcome = outcome, !.responseText = <<>>,
                    !.reads = 0, !.files = 0]
    ELSE [NewTurn EXCEPT !.pc = "done", !.outcome = outcome]

\* the finally block alone: the call returns normally
FinishedKeepLoading(t, tr, st) == [st |-> st, turn |-> Returned(tr, "ok")]
Finished(t, tr, st) == [st |-> LoadingCleared(st), turn |-> Returned(tr, "ok")]

\* the catch block, then the finally block
Failed(t, tr, st) ==
    [st |-> LoadingCleared(AssistantAppended(st, ErrorId(t), ErrorContent)),
     turn |-> Returned(tr, "error")]

\* from `if (content.trim())` to the await of the streaming request
BeginChat(t, tr, st) ==
    IF Trim(tr.content) /= <<>>
    THEN [st |-> AssistantAppended(st, ResponseId(t), <<>>),
          turn |-> [tr EXCEPT !.pc = "fetch",
                              !.request = IF observe
                                          THEN StreamingRequest(tr.content, tr.seen)
                                          ELSE NoRequest]]
    ELSE Finished(t, tr, st)

\* from the creation of the user message to the first await after it
AfterCheck(t, tr, st) ==
    LET st1 == UserAppended(st, UserId(t), tr.content)
    IN  IF tr.files > 0
        THEN [st |-> st1, turn |-> [tr EXCEPT !.pc = "upload"]]
        ELSE BeginChat(t, tr, st1)

\* after one uploadFile: the file record and the confirmation, or the toast
AfterUpload(t, tr, st, ok) ==
    LET st1 == IF ok
               THEN AssistantAppended(FileAdded(st, FileId(t, tr.files)),
                                      ConfirmationId(t, tr.files), ConfirmationContent)
               ELSE st
        tr1 == [tr EXCEPT !.files = tr.files - 1]
    IN  IF tr1.files > 0 THEN [st |-> st1, turn |-> tr1]
        ELSE BeginChat(t, tr1, st1)

\* one reader.read() that returned bytes: the events of the chunk, the onChunk
\* calls, and the throw of an error event
AfterRead(t, tr, st, chunk) ==
    LET p == ProcessChunk(chunk)
        text == tr.responseText \o Concat(p.texts)
        st1 == IF p.texts /= <<>> THEN ContentUpdated(st, ResponseId(t), text) ELSE st
        tr0 == [tr EXCEPT !.responseText = text, !.reads = tr.reads + 1]
        tr1 == IF observe
               THEN [tr0 EXCEPT !.chunks = tr.chunks \o p.texts,
                                !.late = tr.late \/ (tr.sawDone /\ p.texts /= <<>>),
                                !.sawDone = tr.sawDone \/ p.sawDone]
               ELSE tr0
    IN  IF p.threw THEN Failed(t, tr1, st1) ELSE [st |-> st1, turn |-> tr1]

(***************************************************************************)
(* The state machine.                                                      *)
(***************************************************************************)
vars == <<state, storage, turns, boot, nConvs, nOps, hist, observe, call>>

\* no helper call is examined
NoCall == [kind |-> "none"]

\* hist records the last deleteConversation: its argument and the state before it
NoHist == [op |-> "none", id |-> NoId, prev |-> InitialState]

Init ==
    /\ state = InitialState
    /\ storage = EmptyStorage
    /\ turns = [t \in Turns |-> NewTurn]
    /\ boot = "idle"
    /\ nConvs = 0
    /\ nOps = 0
    /\ hist = NoHist
    /\ observe = FALSE
    /\ call = NoCall

\* a state change: the render and the save effect that follows it
Commit(st) ==
    /\ state' = st
    /\ storage' = SaveEffect(storage, st)

\* the conversations created by this step are counted
Counted == nConvs' = IF ConversationId(nConvs + 1) \in ConvIds(state'.conversations)
                     THEN nConvs + 1 ELSE nConvs

Apply(t, r) ==
    /\ Commit(r.st)
    /\ turns' = [turns EXCEPT ![t] = r.turn]
    /\ hist' = NoHist
    /\ UNCHANGED <<boot, nOps, nConvs, observe, call>>

\* the mount effect: load, then start checkServices
Load ==
    /\ ~state.isInitialized
    /\ Commit(Loaded(storage, ConversationId(nConvs + 1)))
    /\ Counted
    /\ boot' = "health"
    /\ hist' = NoHist
    /\ UNCHANGED <<turns, nOps, observe, call>>

\* the page is reloaded: the in-memory state and every pending call are gone
Reload ==
    /\ state.isInitialized
    /\ nOps < MaxOps
    /\ state' = InitialState
    /\ turns' = [t \in Turns |->
                    IF InFlight(turns[t]) THEN Returned(turns[t], "killed") ELSE turns[t]]
    /\ boot' = "idle"
    /\ nOps' = nOps + 1
    /\ hist' = NoHist
    /\ UNCHANGED <<storage, nConvs, observe, call>>

\* checkServices called by the mount effect
BootStep(r) ==
    /\ Commit(r.st)
    /\ boot' = IF r.next = "return" THEN "idle" ELSE r.next
    /\ hist' = NoHist
    /\ UNCHANGED <<turns, nConvs, nOps, observe, call>>

BootHealth == boot = "health" /\ \E report \in HealthReports : BootStep(CheckHealth(state, report))

BootDirect == boot = "direct" /\ \E ollama \in BOOLEAN : BootStep(CheckDirect(state, ollama))

BootSchema == boot = "schema" /\ \E ok \in BOOLEAN : BootStep(CheckSchema(state, ok))

(***************************************************************************)
(* The sidebar operations.                                                 *)
(***************************************************************************)
Op(st) ==
    /\ state.isInitialized
    /\ nOps < MaxOps
    /\ Commit(st)
    /\ Counted
    /\ nOps' = nOps + 1
    /\ UNCHANGED <<turns, boot, observe, call>>

\* the ids a caller may pass: a listed conversation's, or one that names none
ArgIds == ConvIds(state.conversations) \cup {UnknownId}

clearConversation ==
    /\ state.activeConversationId /= NoId
    /\ Op(Cleared(state))
    /\ hist' = NoHist

startNewConversation ==
    /\ Op(Started(state, ConversationId(nConvs + 1)))
    /\ hist' = NoHist

switchConversation ==
    \E id \in ArgIds :
        /\ Op(Switched(state, id))
        /\ hist' = NoHist

deleteConversation ==
    \E id \in ArgIds :
        /\ Op(Deleted(state, id, ConversationId(nConvs + 1)))
        /\ hist' = [op |-> "delete", id |-> id, prev |-> state]

renameConversation ==
    \E id \in ArgIds :
        /\ Op(Renamed(state, id, RenamedTitle))
        /\ hist' = NoHist

(***************************************************************************)
(* sendMessage.                                                            *)
(***************************************************************************)
\* what the message input submits: a text, with or without files
Contents == {<<>>, <<"q">>}

\* The call, up to its first await. The input is disabled while isLoading
\* (MessageInput), and handleSubmit ignores an empty text without files.
sendMessage(t) ==
    \E content \in Contents, files \in 0..MaxFiles :
        /\ state.isInitialized
        /\ ~state.isLoading
        /\ Trim(content) /= <<>> \/ files > 0
        /\ turns[t].pc = "new"
        /\ \A u \in Turns : u < t => turns[u].pc /= "new"
        /\ state.activeConversationId /= NoId
        /\ LET tr == [NewTurn EXCEPT !.content = content, !.files = files,
                                     !.conv0 = IF observe THEN state.activeConversationId
                                               ELSE NoId,
                                     !.seen = IF observe
                                              THEN useActiveConversation(state).messages
                                              ELSE <<>>]
           IN  IF ~state.servicesReady
               THEN Apply(t, [st |-> state, turn |-> [tr EXCEPT !.pc = "health"]])
               ELSE Apply(t, AfterCheck(t, tr, state))

CheckedAppendsAnyway(t, r) ==
    IF r.next /= "return"
    THEN Apply(t, [st |-> r.st, turn |-> [turns[t] EXCEPT !.pc = r.next]])
    ELSE IF r.ret THEN Apply(t, AfterCheck(t, turns[t], r.st))
    ELSE Apply(t, [st |-> UserAppended(r.st, UserId(t), turns[t].content),
                   turn |-> Returned(turns[t], "notready")])

\* checkServices returned to sendMessage
Checked(t, r) ==
    IF r.next /= "return"
    THEN Apply(t, [st |-> r.st, turn |-> [turns[t] EXCEPT !.pc = r.next]])
    ELSE IF r.ret THEN Apply(t, AfterCheck(t, turns[t], r.st))
    ELSE Apply(t, [st |-> r.st, turn |-> Returned(turns[t], "notready")])

TurnHealth(t) ==
    /\ turns[t].pc = "health"
    /\ \E report \in HealthReports : Checked(t, CheckHealth(state, report))

TurnDirect(t) ==
    /\ turns[t].pc = "direct"
    /\ \E ollama \in BOOLEAN : Checked(t, CheckDirect(state, ollama))

TurnSchema(t) ==
    /\ turns[t].pc = "schema"
    /\ \E ok \in BOOLEAN : Checked(t, CheckSchema(state, ok))

Upload(t) ==
    /\ turns[t].pc = "upload"
    /\ \E ok \in BOOLEAN : Apply(t, AfterUpload(t, turns[t], state, ok))

\* the streaming request fails: no response in time, a network error, a status
\* that is not ok
FetchFails(t) ==
    /\ turns[t].pc = "fetch"
    /\ Apply(t, Failed(t, [turns[t] EXCEPT !.rejected = TRUE], state))

\* the response arrives; its body is read as it comes
Respond(t) ==
    /\ turns[t].pc = "fetch"
    /\ Apply(t, [st |-> state, turn |-> [turns[t] EXCEPT !.pc = "read"]])

\* the chunks a read may return in the store-level specification
Ta == [kind |-> "text", v |-> <<"a">>]
StoreChunks == {Encode(Ta), Encode([kind |-> "error", v |-> <<"e">>])}

ReadChunk(t) ==
    /\ turns[t].pc = "read"
    /\ turns[t].reads < MaxReads
    /\ \E chunk \in StoreChunks : Apply(t, AfterRead(t, turns[t], state, chunk))

\* reader.read() reports the end of the body
ReadDone(t) ==
    /\ turns[t].pc = "read"
    /\ turns[t].wire = <<>>
    /\ Apply(t, Finished(t, turns[t], state))

\* reader.read() rejects: the connection fails, or the request timer aborts it
ReadRejects(t) ==
    /\ turns[t].pc = "read"
    /\ Apply(t, Failed(t, [turns[t] EXCEPT !.rejected = TRUE], state))

\* the response with the frames the server wrote, read in arbitrary cuts
FrameSeqs == UNION {[1..n -> Frames] : n \in 0..MaxFrames}

RespondFrames(t) ==
    /\ turns[t].pc = "fetch"
    /\ \E fs \in FrameSeqs :
          Apply(t, [st |-> state,
                    turn |-> [turns[t] EXCEPT !.pc = "read", !.frames = fs,
                                              !.wire = EncodeAll(fs)]])

ReadWire(t) ==
    /\ turns[t].pc = "read"
    /\ \E n \in 1..Len(turns[t].wire) :
          Apply(t, AfterRead(t, [turns[t] EXCEPT !.wire = Drop(turns[t].wire, n)], state,
                             SubSeq(turns[t].wire, 1, n)))

TurnCommon(t) ==
    \/ sendMessage(t)
    \/ TurnHealth(t)
    \/ TurnDirect(t)
    \/ TurnSchema(t)
    \/ Upload(t)

Boot == BootHealth \/ BootDirect \/ BootSchema

\* the store, with the sidebar operations, reloads and concurrent calls
Next ==
    \/ Load
    \/ Reload
    \/ clearConversation
    \/ startNewConversation
    \/ switchConversation
    \/ deleteConversation
    \/ renameConversation
    \/ \E t \in Turns :
          TurnCommon(t) \/ FetchFails(t) \/ Respond(t) \/ ReadChunk(t)
             \/ ReadDone(t) \/ ReadRejects(t)

Spec == Init /\ [][Next]_vars

\* one call, its response read from the wire in arbitrary cuts
StreamStep ==
    TurnCommon(1) \/ FetchFails(1) \/ RespondFrames(1) \/ ReadWire(1)
       \/ ReadDone(1) \/ ReadRejects(1)

NextStream ==
    \/ Load
    \/ StreamStep

InitStream ==
    /\ state = InitialState
    /\ storage = EmptyStorage
    /\ turns = [t \in Turns |-> NewTurn]
    /\ boot = "idle"
    /\ nConvs = 0
    /\ nOps = 0
    /\ hist = NoHist
    /\ observe = TRUE
    /\ call = NoCall

SpecStream == InitStream /\ [][NextStream]_vars

\* consecutive calls in one conversation, each call observed
NextTalk ==
    \/ Load
    \/ \E t \in Turns :
          TurnCommon(t) \/ FetchFails(t) \/ Respond(t) \/ ReadChunk(t)
             \/ ReadDone(t) \/ ReadRejects(t)

SpecTalk == InitStream /\ [][NextTalk]_vars

\* the mount effect alone: load, then checkServices
SpecBoot == Init /\ [][Load \/ Reload \/ Boot]_vars

\* A pending request of a call settles: fetchWithTimeout races it against a timer
\* that is never cleared and aborts the request and the reading of its body, so an
\* upload, a streaming request and a read that nothing else ends are ended by it.
Settles(t) == Upload(t) \/ FetchFails(t) \/ ReadRejects(t)

SpecLive == InitStream /\ [][NextStream]_vars /\ \A t \in Turns : WF_vars(Settles(t))

(***************************************************************************)
(* Properties of the streaming client (SpecStream).                        *)
(***************************************************************************)
\* the decode of the frames fs when every frame arrives whole in a read of its own
RECURSIVE WholeRun(_, _)
WholeRun(fs, texts) ==
    IF fs = <<>> THEN [texts |-> texts, outcome |-> "ok"]
    ELSE LET p == ProcessChunk(Encode(Head(fs)))
         IN  IF p.threw THEN [texts |-> texts \o p.texts, outcome |-> "error"]
             ELSE WholeRun(Tail(fs), texts \o p.texts)

\* the bytes of the response read so far
Consumed(tr) == Len(EncodeAll(tr.frames)) - Len(tr.wire)

\* the frames that have arrived completely
RECURSIVE Arrived(_, _)
Arrived(fs, n) ==
    IF fs = <<>> \/ Len(Encode(Head(fs))) > n THEN <<>>
    ELSE <<Head(fs)>> \o Arrived(Tail(fs), n - Len(Encode(Head(fs))))

\* the frames before the first frame that is not a text frame
RECURSIVE TextPrefix(_)
TextPrefix(fs) ==
    IF fs = <<>> \/ Head(fs).kind /= "text" THEN <<>>
    ELSE <<Head(fs)>> \o TextPrefix(Tail(fs))

TextsOf(fs) == Concat([i \in 1..Len(fs) |-> fs[i].v])

\* the text a receiver has when it has all frames that arrived completely (ahead = 0)
\* or also the frame of which only the closing blank line is missing (ahead = 2)
TextReceived(tr, ahead) == TextsOf(TextPrefix(Arrived(tr.frames, Consumed(tr) + ahead)))

TextsReceived(tr) == {TextReceived(tr, 0), TextReceived(tr, Len(<<NL, NL>>))}

\* the first frame that is not a text frame, if any has arrived, is an error frame
ErrorArrived(tr) ==
    LET got == Arrived(tr.frames, Consumed(tr))
        k == Len(TextPrefix(got))
    IN  k < Len(got) /\ got[k + 1].kind = "error"

Streamed(tr) == tr.pc \in {"read", "done"} /\ tr.outcome \in {"none", "ok", "error"}
                  /\ Trim(tr.content) /= <<>>

\* the content of the message id, or <<"absent">>
ContentOf(id) ==
    IF id \in MsgIds(state.messages)
    THEN (CHOOSE m \in SeqRange(state.messages) : m.id = id).content
    ELSE <<"absent">>

\* C1: however the byte stream of the frames is cut into reads, the decode hands
\* onChunk the same texts and ends the same way (normally or with an error) as when
\* every frame arrives whole in a read of its own.
C1_CutsDoNotChangeTheDecode ==
    \A t \in Turns :
        (turns[t].pc = "done" /\ turns[t].outcome \in {"ok", "error"} /\ ~turns[t].rejected)
            => /\ turns[t].chunks = WholeRun(turns[t].frames, <<>>).texts
               /\ turns[t].outcome = WholeRun(turns[t].frames, <<>>).outcome

\* C2: once a [DONE] frame has been processed, no text is handed to onChunk any
\* more, and the decode completes without an error.
C2_DoneIsTerminal ==
    \A t \in Turns :
        turns[t].sawDone =>
            /\ ~turns[t].late
            /\ (turns[t].pc = "done" /\ ~turns[t].rejected) => turns[t].outcome = "ok"

\* C3: the content of the turn's assistant message is the concatenation, in arrival
\* order, of the texts of the text frames received so far, and text frames followed
\* by [DONE] end the turn normally with all their texts as the content.
C3_ContentIsTheTextsReceived ==
    \A t \in Turns :
        (Streamed(turns[t]) /\ ResponseId(t) \in MsgIds(state.messages)) =>
            /\ ContentOf(ResponseId(t)) \in TextsReceived(turns[t])
            /\ (/\ turns[t].pc = "done" /\ ~turns[t].rejected /\ turns[t].wire = <<>>
                /\ turns[t].frames /= <<>>
                /\ turns[t].frames[Len(turns[t].frames)].kind = "done"
                /\ Len(TextPrefix(turns[t].frames)) = Len(turns[t].frames) - 1)
               => turns[t].outcome = "ok"

\* C4: when an error frame has been received or the transport has failed, the decode
\* rejects, the placeholder keeps the content accumulated before the failure, and
\* one failure message follows it in the conversation.
C4_FailureKeepsThePartialAnswer ==
    \A t \in Turns :
        (/\ turns[t].pc = "done" /\ Streamed(turns[t])
         /\ turns[t].rejected \/ ErrorArrived(turns[t]))
        => /\ turns[t].outcome = "error"
           /\ ContentOf(ResponseId(t)) \in TextsReceived(turns[t])
           /\ \E i \in 1..Len(state.conversations) :
                 LET ids == state.conversations[i].messageIds
                 IN  /\ state.conversations[i].id = turns[t].conv0
                     /\ Len(ids) >= 2
                     /\ SubSeq(ids, Len(ids) - 1, Len(ids)) = <<ResponseId(t), ErrorId(t)>>

(***************************************************************************)
(* Properties of the store.                                                *)
(***************************************************************************)
\* C5: every turn that has set isLoading ends, and isLoading is false when it ends.
C5_LoadingEnds ==
    \A t \in Turns :
        (turns[t].pc \in {"upload", "fetch", "read"})
            ~> (turns[t].pc = "done" /\ ~state.isLoading)

\* a call whose stream was aborted after a text had arrived has ended
C5_Witness ==
    \E t \in Turns :
        /\ turns[t].pc = "done" /\ turns[t].rejected /\ turns[t].chunks /= <<>>
        /\ ~state.isLoading

\* C6: while one call of sendMessage is in progress, no second call is.
C6_TurnsAreSerialized ==
    Cardinality({t \in Turns : InFlight(turns[t])}) <= 1

\* C7: every id in every conversation's messageIds is the id of a message of the
\* message list.
C7_MessageIdsResolve ==
    state.isInitialized =>
        \A i \in 1..Len(state.conversations) :
            SeqRange(state.conversations[i].messageIds) \subseteq MsgIds(state.messages)

\* a conversation was deleted while a call was streaming, and messages remain
C7_Witness ==
    /\ hist.op = "delete"
    /\ \E t \in Turns : turns[t].pc = "read"
    /\ \E i \in 1..Len(state.conversations) : state.conversations[i].messageIds /= <<>>
    /\ Len(state.conversations) > 1

\* C8: after deleteConversation the message list is the previous one, in the same
\* order, restricted to the messages some remaining conversation refers to.
C8_DeletePrunesUnreferenced ==
    hist.op = "delete" =>
        state.messages =
            SelectSeq(hist.prev.messages, LAMBDA m :
                \E i \in 1..Len(state.conversations) :
                    m.id \in SeqRange(state.conversations[i].messageIds))

\* a delete removed some messages and left others
C8_Witness ==
    /\ hist.op = "delete"
    /\ Len(state.messages) > 0
    /\ Len(state.messages) < Len(hist.prev.messages)

\* C9: deleting the active conversation makes the first remaining conversation
\* active, or a new empty conversation if none remains; deleting another one
\* leaves the active id unchanged.
C9_DeleteSelectsReplacement ==
    hist.op = "delete" =>
        LET others == SelectSeq(hist.prev.conversations, LAMBDA c : c.id /= hist.id)
        IN  IF hist.prev.activeConversationId /= hist.id
            THEN state.activeConversationId = hist.prev.activeConversationId
            ELSE IF others /= <<>>
            THEN /\ state.conversations = others
                 /\ state.activeConversationId = others[1].id
            ELSE /\ Len(state.conversations) = 1
                 /\ state.conversations[1].messageIds = <<>>
                 /\ state.conversations[1].id \notin ConvIds(hist.prev.conversations)
                 /\ state.activeConversationId = state.conversations[1].id

\* the active conversation was deleted and another one remained
C9_Witness ==
    /\ hist.op = "delete"
    /\ hist.prev.activeConversationId = hist.id
    /\ hist.id \in ConvIds(hist.prev.conversations)
    /\ Len(hist.prev.conversations) > 1

\* C10: after initialization the conversation list is non-empty and the active id
\* is the id of a listed conversation.
C10_ActiveConversationExists ==
    state.isInitialized =>
        /\ Len(state.conversations) > 0
        /\ state.activeConversationId \in ConvIds(state.conversations)

\* C11: appending a message to a conversation that was renamed leaves the renamed
\* title in place (the title follows the message only for a first message of a
\* conversation that was not renamed).
C11_RenamedTitleIsKept ==
    [][\A i \in 1..Len(state.conversations) : \A j \in 1..Len(state'.conversations) :
          (/\ state.conversations[i].id = state'.conversations[j].id
           /\ state.conversations[i].title = RenamedTitle
           /\ Len(state'.conversations[j].messageIds)
                 > Len(state.conversations[i].messageIds))
          => state'.conversations[j].title = RenamedTitle]_vars

\* C12: after initialization the four persisted collections equal the ones in
\* memory, so that a reload restores the conversations, the active id, the messages
\* and the uploaded files that were in memory.
C12_StorageMirrorsState ==
    state.isInitialized =>
        LET restored == Loaded(storage, ConversationId(nConvs + 1))
        IN  /\ restored.conversations = state.conversations
            /\ restored.activeConversationId = state.activeConversationId
            /\ restored.messages = state.messages
            /\ restored.uploadedFiles = state.uploadedFiles

C14_GateNeedsBothServices ==
    [][\A t \in Turns :
          (turns[t].pc = "direct" /\ turns'[t] /= turns[t])
          => /\ turns'[t].outcome \in {"notready", "killed"}
             /\ state'.servicesReady => state.servicesReady]_vars

(***************************************************************************)
(* Calls examined alone: the store stays as constructed.                   *)
(***************************************************************************)
storeVars == <<state, storage, turns, boot, nConvs, nOps, hist, observe>>

StoreIdle ==
    /\ state = InitialState
    /\ storage = EmptyStorage
    /\ turns = [t \in Turns |-> NewTurn]
    /\ boot = "idle"
    /\ nConvs = 0
    /\ nOps = 0
    /\ hist = NoHist
    /\ observe = FALSE

(***************************************************************************)
(* retry(fn, retries, delay) and checkServicesHealth, which wraps the      *)
(* health probe in retry(fn, 2).                                           *)
(***************************************************************************)
\* retry's default delay, used by checkServicesHealth
DefaultDelay == 300
\* retry(..., 2) in checkServicesHealth
HealthRetries == 2

\* what a failed invocation throws: its cause, tagged with the invocation's number
Causes == {"timeout", "status"}
\* what a successful invocation of an arbitrary fn returns
Values == {"v", "w"}

\* the report checkServicesHealth builds when retry threw
AllFalseReport == [weaviate |-> FALSE, ollama |-> FALSE, schema |-> FALSE, allHealthy |-> FALSE]
\* the reports built from a 200 answer of /api/health
HealthyReports == {r \in HealthReports : r.allHealthy}

\* a call retry(fn, n, d); wrapped: it is the one inside checkServicesHealth
RetryCall(n, d, wrapped) ==
    [kind |-> "retry", wrapped |-> wrapped, n |-> n, d |-> d,
     retries |-> n, delay |-> d, pc |-> "fn", calls |-> 0,
     errs |-> <<>>, waits |-> <<>>, result |-> <<>>]

\* the catch block, up to the await of the timer
Caught(c, error) ==
    IF c.retries <= 0 THEN [c EXCEPT !.pc = "thrown", !.result = error]
    ELSE [c EXCEPT !.pc = "wait"]

\* after the timer: retry(fn, retries - 1, delay * 2)
RetriedSameDelay(c) ==
    [c EXCEPT !.waits = Append(c.waits, c.delay), !.retries = c.retries - 1, !.pc = "fn"]
Retried(c) ==
    [c EXCEPT !.waits = Append(c.waits, c.delay), !.retries = c.retries - 1,
              !.delay = c.delay * 2, !.pc = "fn"]

InitRetry ==
    /\ StoreIdle
    /\ call \in {RetryCall(n, d, FALSE) : n \in 0..MaxRetries, d \in 1..MaxDelay}
                  \cup {RetryCall(HealthRetries, DefaultDelay, TRUE)}

\* fn() resolves
FnReturns ==
    /\ call.kind = "retry" /\ call.pc = "fn"
    /\ \E v \in IF call.wrapped THEN HealthyReports ELSE Values :
          call' = [call EXCEPT !.calls = call.calls + 1, !.pc = "returned", !.result = v]
    /\ UNCHANGED storeVars

\* fn() rejects
FnThrows ==
    /\ call.kind = "retry" /\ call.pc = "fn"
    /\ \E cause \in Causes :
          LET error == <<cause, call.calls + 1>>
          IN  call' = Caught([call EXCEPT !.calls = call.calls + 1,
                                          !.errs = Append(call.errs, error)], error)
    /\ UNCHANGED storeVars

\* the setTimeout of the backoff fires
TimerFires ==
    /\ call.kind = "retry" /\ call.pc = "wait"
    /\ call' = Retried(call)
    /\ UNCHANGED storeVars

\* checkServicesHealth returns retry's result, or the all-false report if it threw
HealthReturns ==
    /\ call.kind = "retry" /\ call.wrapped /\ call.pc \in {"returned", "thrown"}
    /\ call' = [call EXCEPT !.pc = "reported",
                            !.result = IF call.pc = "returned" THEN call.result
                                       ELSE AllFalseReport]
    /\ UNCHANGED storeVars

NextRetry == FnReturns \/ FnThrows \/ TimerFires \/ HealthReturns

\* every invocation of fn settles and every timer fires
SpecRetry == InitRetry /\ [][NextRetry]_vars /\ WF_vars(NextRetry)

RECURSIVE Pow2(_)
Pow2(k) == IF k = 0 THEN 1 ELSE 2 * Pow2(k - 1)

RetryEnded == call.pc \in (IF call.wrapped THEN {"reported"} ELSE {"returned", "thrown"})

\* C15: retry(fn, n, d) invokes fn at most n+1 times, returns the result of the first
\* invocation that succeeds and invokes fn no more, waits d, 2d, 4d, ... before the
\* further attempts, throws the last error after n+1 failures, and always ends;
\* checkServicesHealth probes at most 3 times and then returns the all-false report.
C15_RetryIsBounded ==
    /\ [](/\ call.calls <= call.n + 1
          /\ call.waits = [i \in 1..Len(call.waits) |-> call.d * Pow2(i - 1)]
          /\ Len(call.waits) = IF call.pc = "fn" THEN call.calls ELSE call.calls - 1
          /\ call.pc = "returned" =>
                /\ Len(call.errs) = call.calls - 1
                /\ call.result \in (IF call.wrapped THEN HealthyReports ELSE Values)
          /\ call.pc = "thrown" =>
                /\ call.calls = call.n + 1
                /\ Len(call.errs) = call.n + 1
                /\ call.result = call.errs[call.n + 1]
          /\ call.wrapped =>
                /\ call.calls <= 3
                /\ call.pc = "reported" =>
                      IF Len(call.errs) = 3 THEN call.result = AllFalseReport
                      ELSE call.result \in HealthyReports)
    /\ <>RetryEnded

\* the health check has failed three times and reported all services down
C15_Witness ==
    /\ call.kind = "retry" /\ call.wrapped /\ call.pc = "reported"
    /\ call.calls = 3 /\ call.result = AllFalseReport
    /\ call.waits = <<DefaultDelay, 2 * DefaultDelay>>

(***************************************************************************)
(* Retrieval: retrieveRelevantDocuments (rag-utils), retrieveSimilarImages *)
(* and retrieveImagesByText (image-utils).                                 *)
(***************************************************************************)
Scores == 0..MaxScore

\* the objects of the class TextDocument the service may return
TextCandidates ==
    [content : {<<"c">>}, title : {<<>>, <<"T">>}, source : {<<>>, <<"S">>},
     certainty : Scores]
\* the objects of the class ImageDocument the service may return
ImageCandidates ==
    [id : {1, 2}, caption : {<<"k">>}, filename : {<<"f">>}, certainty : Scores]

SeqsUpTo(S, n) == UNION {[1..k -> S] : k \in 0..n}

\* .filter(doc => doc._additional.certainty >= minScore)
DropNothing(candidates, minScore) == candidates
AboveFloor(candidates, minScore) ==
    SelectSeq(candidates, LAMBDA doc : doc.certainty >= minScore)

\* .map(doc => ({ content, title, source, metadata, score: certainty }))
TextResults(docs) ==
    [i \in 1..Len(docs) |->
        [content |-> docs[i].content, title |-> docs[i].title,
         source |-> docs[i].source, score |-> docs[i].certainty]]

\* .map(img => ({ id, caption, filename, mimeType, metadata, score: certainty }))
ImageResults(images) ==
    [i \in 1..Len(images) |->
        [id |-> images[i].id, caption |-> images[i].caption,
         filename |-> images[i].filename, score |-> images[i].certainty]]

\* the three retrievers on an answer of the service
retrieveRelevantDocuments(documents, minScore) == TextResults(AboveFloor(documents, minScore))
retrieveSimilarImages(images, minScore) == ImageResults(AboveFloor(images, minScore))
retrieveImagesByText(images, minScore) == ImageResults(AboveFloor(images, minScore))

Retrievers == {"retrieveRelevantDocuments", "retrieveSimilarImages", "retrieveImagesByText"}

InitRetrieve ==
    /\ StoreIdle
    /\ call \in [kind : {"retrieve"}, fn : Retrievers, minScore : Scores,
                 pc : {"query"}, answer : {<<>>}, failed : {FALSE}, out : {<<>>}]

\* the query resolves with a list of objects
QueryAnswers ==
    /\ call.kind = "retrieve" /\ call.pc = "query"
    /\ \E answer \in SeqsUpTo(IF call.fn = "retrieveRelevantDocuments"
                              THEN TextCandidates ELSE ImageCandidates, MaxDocs) :
          call' = [call EXCEPT
                      !.pc = "done", !.answer = answer,
                      !.out = CASE call.fn = "retrieveRelevantDocuments" ->
                                      retrieveRelevantDocuments(answer, call.minScore)
                                [] call.fn = "retrieveSimilarImages" ->
                                      retrieveSimilarImages(answer, call.minScore)
                                [] OTHER -> retrieveImagesByText(answer, call.minScore)]
    /\ UNCHANGED storeVars

\* the query rejects: the catch returns []
QueryFails ==
    /\ call.kind = "retrieve" /\ call.pc = "query"
    /\ call' = [call EXCEPT !.pc = "done", !.failed = TRUE, !.out = <<>>]
    /\ UNCHANGED storeVars

NextRetrieve == QueryAnswers \/ QueryFails

SpecRetrieve == InitRetrieve /\ [][NextRetrieve]_vars

\* the positions of the candidates at or above the floor, in ascending order
RECURSIVE KeptPositions(_, _, _)
KeptPositions(answer, minScore, i) ==
    IF i > Len(answer) THEN <<>>
    ELSE (IF answer[i].certainty < minScore THEN <<>> ELSE <<i>>)
            \o KeptPositions(answer, minScore, i + 1)

\* C16: each retriever returns one result for every candidate whose certainty is
\* at least minScore and for no other, in the order of the answer, with the score
\* equal to the certainty and the candidate's own fields.
C16_FloorKeepsExactlyTheCertain ==
    (call.kind = "retrieve" /\ call.pc = "done" /\ ~call.failed) =>
        LET kept == KeptPositions(call.answer, call.minScore, 1)
        IN  /\ Len(call.out) = Len(kept)
            /\ \A k \in 1..Len(kept) :
                  LET c == call.answer[kept[k]]
                      r == call.out[k]
                  IN  /\ r.score = c.certainty
                      /\ r.score >= call.minScore
                      /\ IF call.fn = "retrieveRelevantDocuments"
                         THEN r.content = c.content /\ r.title = c.title
                                 /\ r.source = c.source
                         ELSE r.id = c.id /\ r.caption = c.caption
                                 /\ r.filename = c.filename

\* an answer with a candidate below the floor before one above it
C16_Witness ==
    /\ call.kind = "retrieve" /\ call.pc = "done" /\ ~call.failed
    /\ Len(call.answer) = 2 /\ Len(call.out) = 1
    /\ call.answer[1].certainty < call.minScore
    /\ call.out[1].score = call.answer[2].certainty

\* ---------------------------------------------------------------------------
\* The prompt of a chat request: formatContextFromDocuments, formatSystemPrompt
\* and the two chat routes
\* ---------------------------------------------------------------------------

\* upper bound: the entries of the messages array of a request
MaxMessages == 3

DocumentOpen ==
    <<"[", "D", "o", "c", "u", "m", "e", "n", "t", SP>>
TitleLabel ==
    <<"T", "i", "t", "l", "e", ":", SP>>
SourceLabel ==
    <<"S", "o", "u", "r", "c", "e", ":", SP>>
HeaderJoin == <<SP, "|", SP>>
ContextOpener ==
    <<"C", "o", "n", "t", "e", "x", "t", SP, "i", "n", "f", "o", "r", "m", "a", "t",
      "i", "o", "n", SP, "i", "s", SP, "b", "e", "l", "o", "w", ".">>
ContextCloser ==
    <<"G", "i", "v", "e", "n", SP, "t", "h", "e", SP, "i", "n", "f", "o", "r", "m",
      "a", "t", "i", "o", "n", SP, "a", "b", "o", "v", "e", ",", SP, "p", "l", "e",
      "a", "s", "e", SP, "r", "e", "s", "p", "o", "n", "d", SP, "t", "o", SP, "t", "h",
      "e", SP, "u", "s", "e", "r", "'", "s", SP, "q", "u", "e", "r", "y", ".">>

DigitChars == <<"0", "1", "2", "3", "4", "5", "6", "7", "8", "9">>
\* `${index + 1}`: the decimal digits of a natural number
RECURSIVE NumberText(_)
NumberText(n) ==
    IF n < 10 THEN <<DigitChars[n + 1]>>
    ELSE NumberText(n \div 10) \o <<DigitChars[(n % 10) + 1]>>

\* [title, source].filter(Boolean).join(' | ')
Header(doc) ==
    LET title == IF doc.title /= <<>> THEN TitleLabel \o doc.title ELSE <<>>
        source == IF doc.source /= <<>> THEN SourceLabel \o doc.source ELSE <<>>
    IN  IF title /= <<>> /\ source /= <<>> THEN title \o HeaderJoin \o source
        ELSE title \o source

\* `[Document ${index + 1}]${header ? '\n' + header : ''}\n${doc.content}`
\* (index is the position counted from 0)
DocumentBlockFromZero(doc, index) ==
    DocumentOpen \o NumberText(index) \o <<"]">>
        \o (IF Header(doc) /= <<>> THEN <<NL>> \o Header(doc) ELSE <<>>)
        \o <<NL>> \o doc.content
DocumentBlock(doc, index) ==
    DocumentOpen \o NumberText(index + 1) \o <<"]">>
        \o (IF Header(doc) /= <<>> THEN <<NL>> \o Header(doc) ELSE <<>>)
        \o <<NL>> \o doc.content

\* blocks.join('\n\n')
RECURSIVE JoinBlocks(_, _)
JoinBlocks(documents, i) ==
    IF i > Len(documents) THEN <<>>
    ELSE (IF i > 1 THEN <<NL, NL>> ELSE <<>>)
            \o DocumentBlock(documents[i], i - 1) \o JoinBlocks(documents, i + 1)

formatContextFromDocuments(documents) ==
    IF Len(documents) = 0 THEN <<>> ELSE JoinBlocks(documents, 1)

\* the framing is added also around an empty context
FramesAlways(context, baseSystemPrompt) ==
    baseSystemPrompt \o <<NL, NL>> \o ContextOpener \o <<NL>> \o context
        \o <<NL, NL>> \o ContextCloser
\* the emptiness test reads the base prompt instead of the context
TestsBasePrompt(context, baseSystemPrompt) ==
    IF baseSystemPrompt = <<>> THEN baseSystemPrompt
    ELSE baseSystemPrompt \o <<NL, NL>> \o ContextOpener \o <<NL>> \o context
            \o <<NL, NL>> \o ContextCloser
formatSystemPrompt(context, baseSystemPrompt) ==
    IF context = <<>> THEN baseSystemPrompt
    ELSE baseSystemPrompt \o <<NL, NL>> \o ContextOpener \o <<NL>> \o context
            \o <<NL, NL>> \o ContextCloser

\* minScore = 0.7 of DEFAULT_RETRIEVAL_OPTIONS on the scale of Scores
\* (0 is below the default floor, 1 is at it, the higher scores are above it)
DefaultMinScore == 1

\* the system prompts a request may carry (systemPrompt = DEFAULT_SYSTEM_PROMPT
\* when the body has none)
BasePrompts == {<<>>, <<"b">>, <<"e", "b">>}

Roles == {"system", "user", "assistant"}
Messages == [role : Roles, content : {<<"a">>, <<"b">>}]

\* [...messages].reverse().find(m => m.role === 'user')?.content
RECURSIVE LastUserContent(_)
LastUserContent(messages) ==
    IF messages = <<>> THEN <<>>
    ELSE IF messages[Len(messages)].role = "user" THEN messages[Len(messages)].content
    ELSE LastUserContent(SubSeq(messages, 1, Len(messages) - 1))

\* messages.length > 0 ? [...messages] : [{ role: 'user', content: message }]
OllamaMessages(req) ==
    IF req.endpoint = "streaming" /\ Len(req.messages) = 0
    THEN <<[role |-> "user", content |-> req.message]>>
    ELSE req.messages

\* message || <content of the last user message> || ''
LastUserMessage(req) ==
    IF req.endpoint = "streaming" /\ req.message /= <<>> THEN req.message
    ELSE LastUserContent(OllamaMessages(req))

\* the body fails the validation of its route
Invalid(req) ==
    IF req.endpoint = "streaming"
    THEN req.message = <<>> /\ Len(req.messages) = 0
    ELSE Len(req.messages) = 0

\* ollamaMessages.findIndex(m => m.role === 'system'), counted from 1; 0 for -1
RECURSIVE FindSystem(_, _)
FindSystem(messages, i) ==
    IF i > Len(messages) THEN 0
    ELSE IF messages[i].role = "system" THEN i
    ELSE FindSystem(messages, i + 1)

\* the system message is always added in front
PrependsAlways(messages, prompt) ==
    <<[role |-> "system", content |-> prompt]>> \o messages
\* "Add or update the system message"
WithSystemPrompt(messages, prompt) ==
    LET systemMessageIndex == FindSystem(messages, 1)
    IN  IF systemMessageIndex >= 1
        THEN [messages EXCEPT ![systemMessageIndex].content = prompt]
        ELSE <<[role |-> "system", content |-> prompt]>> \o messages

InitRoute ==
    /\ StoreIdle
    /\ call \in [kind : {"route"}, endpoint : {"streaming", "invoke"},
                 message : {<<>>, <<"q">>},
                 messages : SeqsUpTo(Messages, MaxMessages),
                 useRag : BOOLEAN, systemPrompt : BasePrompts,
                 pc : {"received"}, retrieved : {FALSE}, failed : {FALSE},
                 docs : {<<>>}, context : {<<>>}, prompt : {<<>>},
                 ollamaMessages : {<<>>}, called : {FALSE}, status : {0}]
    /\ call.endpoint = "invoke" => call.message = <<>>

\* the validation answers 400
RouteRejects ==
    /\ call.kind = "route" /\ call.pc = "received"
    /\ Invalid(call)
    /\ call' = [call EXCEPT !.pc = "done", !.status = 400]
    /\ UNCHANGED storeVars

\* useRag && lastUserMessage is false: the generation service is called with
\* the messages of the request
RouteSkipsRetrieval ==
    /\ call.kind = "route" /\ call.pc = "received"
    /\ ~Invalid(call)
    /\ ~(call.useRag /\ LastUserMessage(call) /= <<>>)
    /\ call' = [call EXCEPT !.pc = "generating", !.called = TRUE,
                            !.ollamaMessages = OllamaMessages(call)]
    /\ UNCHANGED storeVars

\* await retrieveRelevantDocuments(lastUserMessage)
RouteRetrieves ==
    /\ call.kind = "route" /\ call.pc = "received"
    /\ ~Invalid(call)
    /\ call.useRag /\ LastUserMessage(call) /= <<>>
    /\ call' = [call EXCEPT !.pc = "retrieving",
                            !.ollamaMessages = OllamaMessages(call)]
    /\ UNCHANGED storeVars

\* the rest of the handler once the retriever has returned docs: the context,
\* the system prompt, the system message and the call of the generation service
Assembled(c, docs) ==
    LET context == formatContextFromDocuments(docs)
        enhancedSystemPrompt == formatSystemPrompt(context, c.systemPrompt)
    IN  [c EXCEPT !.pc = "generating", !.retrieved = TRUE, !.docs = docs,
                  !.context = context, !.prompt = enhancedSystemPrompt,
                  !.ollamaMessages = WithSystemPrompt(c.ollamaMessages,
                                                      enhancedSystemPrompt),
                  !.called = TRUE]

\* the vector-search query resolves
RetrievalAnswers ==
    /\ call.kind = "route" /\ call.pc = "retrieving"
    /\ \E answer \in SeqsUpTo(TextCandidates, MaxDocs) :
          call' = Assembled(call, retrieveRelevantDocuments(answer, DefaultMinScore))
    /\ UNCHANGED storeVars

\* the vector-search query rejects: the retriever returns []
RetrievalFails ==
    /\ call.kind = "route" /\ call.pc = "retrieving"
    /\ call' = [Assembled(call, <<>>) EXCEPT !.failed = TRUE]
    /\ UNCHANGED storeVars

\* ollama.stream / ollama.invoke resolves
GenerationAnswers ==
    /\ call.kind = "route" /\ call.pc = "generating"
    /\ call' = [call EXCEPT !.pc = "done", !.status = 200]
    /\ UNCHANGED storeVars

\* ollama.stream / ollama.invoke rejects: the streaming route answers with an
\* error frame, the other route with 500
GenerationFails ==
    /\ call.kind = "route" /\ call.pc = "generating"
    /\ call' = [call EXCEPT !.pc = "done",
                   !.status = IF call.endpoint = "streaming" THEN 200 ELSE 500]
    /\ UNCHANGED storeVars

NextRoute ==
    \/ RouteRejects
    \/ RouteSkipsRetrieval
    \/ RouteRetrieves
    \/ RetrievalAnswers
    \/ RetrievalFails
    \/ GenerationAnswers
    \/ GenerationFails

SpecRoute == InitRoute /\ [][NextRoute]_vars

\* the system-role entries of a message list
SystemMessages(messages) == SelectSeq(messages, LAMBDA m : m.role = "system")
\* the other entries of a message list
OtherMessages(messages) == SelectSeq(messages, LAMBDA m : m.role /= "system")

\* C17: when the vector-search query of a request with RAG fails, the retriever
\* returns the empty sequence, the generation service is still called, and the
\* list it is called with has a system message whose content is the base prompt
\* of the request, unmodified.
C17_FailedRetrievalKeepsTheTurn ==
    (call.kind = "route" /\ call.failed) =>
        /\ call.docs = <<>>
        /\ call.called
        /\ call.pc \in {"generating", "done"} /\ call.status \in {0, 200, 500}
        /\ FindSystem(call.ollamaMessages, 1) >= 1
        /\ call.ollamaMessages[FindSystem(call.ollamaMessages, 1)].content
              = call.systemPrompt

\* a failed retrieval of a request that had no system message
C17_Witness ==
    /\ call.kind = "route" /\ call.failed /\ call.called /\ call.useRag
    /\ SystemMessages(call.messages) = <<>>
    /\ Head(call.ollamaMessages) = [role |-> "system", content |-> call.systemPrompt]

\* C18: the list passed to the generation service has at most one system-role
\* message, whatever the number of system-role entries of the request; after a
\* retrieval that one message carries the augmented prompt (in the place of the
\* request's system message, or in front when the request had none), and the
\* messages of the other roles are those of the request in their order.
C18_AtMostOneSystemMessage ==
    (call.kind = "route" /\ call.called) =>
        /\ Len(SystemMessages(call.ollamaMessages)) <= 1
        /\ OtherMessages(call.ollamaMessages) = OtherMessages(OllamaMessages(call))
        /\ call.retrieved =>
              /\ SystemMessages(call.ollamaMessages)
                    = <<[role |-> "system", content |-> call.prompt]>>
              /\ SystemMessages(call.messages) = <<>>
                    => Head(call.ollamaMessages).role = "system"

\* the closing sentence of the framing as the specification words it
ClaimedCloser ==
    <<"G", "i", "v", "e", "n", SP, "t", "h", "e", SP, "i", "n", "f", "o", "r", "m",
      "a", "t", "i", "o", "n", SP, "a", "b", "o", "v", "e", ",", SP, "r", "e", "s",
      "p", "o", "n", "d", SP, "t", "o", SP, "t", "h", "e", SP, "u", "s", "e", "r", "'",
      "s", SP, "q", "u", "e", "r", "y", ".">>

\* the sequences of line breaks that may separate two parts of the prompt
LineBreaks == SeqsUpTo({NL}, 3)

\* C19: for a non-empty context the prompt is exactly the base prompt, the
\* opener "Context information is below.", the context block and the closing
\* sentence "Given the information above, respond to the user's query.", with
\* nothing but line breaks between these parts.
C19_FramingIsByteExact ==
    (call.kind = "route" /\ call.retrieved /\ call.context /= <<>>) =>
        \E a, b, c \in LineBreaks :
            call.prompt = call.systemPrompt \o a \o ContextOpener \o b
                              \o call.context \o c \o ClaimedCloser

\* p occurs in s at position i
OccursAt(s, p, i) ==
    i >= 1 /\ i + Len(p) - 1 <= Len(s) /\ SubSeq(s, i, i + Len(p) - 1) = p

\* the first position from `from` on at which p occurs in s; 0 when there is none
FirstAt(s, p, from) ==
    LET at == {i \in from..(Len(s) - Len(p) + 1) : OccursAt(s, p, i)}
    IN  IF at = {} THEN 0 ELSE CHOOSE i \in at : \A j \in at : i <= j

\* p, q and r occur in s one after the other, without overlap
InThatOrder(s, p, q, r) ==
    LET i == FirstAt(s, p, 1)
        j == IF i = 0 THEN 0 ELSE FirstAt(s, q, i + Len(p))
        k == IF j = 0 THEN 0 ELSE FirstAt(s, r, j + Len(q))
    IN  k /= 0

\* C20: when the retrieval of a request with RAG returns results of which the
\* first has a title, the system prompt contains "[Document 1]", then
\* "Title: " with that title, then the base prompt of the request, in that order.
C20_DocumentTitleThenBasePrompt ==
    (call.kind = "route" /\ call.retrieved /\ call.useRag /\ call.docs /= <<>>
        /\ Head(call.docs).title /= <<>>) =>
        /\ SystemMessages(call.ollamaMessages) /= <<>>
        /\ InThatOrder(Head(SystemMessages(call.ollamaMessages)).content,
                       DocumentOpen \o <<"1", "]">>,
                       TitleLabel \o Head(call.docs).title,
                       call.systemPrompt)

\* C20 as amended: when the retrieval of a request with RAG returns results of
\* which the first has a title, the system prompt contains the base prompt of
\* the request, then "[Document 1]", then "Title: " with that title, in that
\* order.
C20_BasePromptThenDocumentTitle ==
    (call.kind = "route" /\ call.retrieved /\ call.useRag /\ call.docs /= <<>>
        /\ Head(call.docs).title /= <<>>) =>
        /\ SystemMessages(call.ollamaMessages) /= <<>>
        /\ InThatOrder(Head(SystemMessages(call.ollamaMessages)).content,
                       call.systemPrompt,
                       DocumentOpen \o <<"1", "]">>,
                       TitleLabel \o Head(call.docs).title)

\* a request with RAG whose retrieval returned one titled result, sent on to the
\* generation service
C20_Witness ==
    /\ call.kind = "route" /\ call.retrieved /\ call.useRag /\ call.called
    /\ Len(call.docs) = 1 /\ Head(call.docs).title = <<"T">>
    /\ call.ollamaMessages /= <<>>
    /\ Head(call.ollamaMessages).role = "system"
    /\ Len(Head(call.ollamaMessages).content) > Len(call.systemPrompt)

\* C21: the context of no results is the empty string, and the system prompt
\* built from an empty context is the base prompt of the request, whatever the
\* base prompt is: no framing is added.
C21_EmptyContextAddsNoFraming ==
    (call.kind = "route" /\ call.retrieved /\ call.docs = <<>>) =>
        /\ call.context = <<>>
        /\ call.prompt = call.systemPrompt

\* a retrieval that answered, with every candidate below the floor, for a request
\* with a base prompt of two characters
C21_Witness ==
    /\ call.kind = "route" /\ call.retrieved /\ ~call.failed /\ call.docs = <<>>
    /\ call.systemPrompt = <<"e", "b">> /\ call.prompt = <<"e", "b">>

\* ---------------------------------------------------------------------------
\* Ingestion: chunkText and storeDocument
\* ---------------------------------------------------------------------------

\* upper bound: the characters of a document
MaxText == 4
\* upper bound: chunkSize
MaxChunkSize == 3
\* the iterations of the sliding window that are followed: one more than a
\* window that advances needs for the longest document
MaxChunks == MaxText + 1

\* Math.floor(chunkOverlap / 7): the characters counted for one word of overlap
WordBudget == 7

TextAlphabet == {"a", "b", SP, NL}

\* a document and a configuration of two paragraphs in one chunk
ScenarioText ==
    <<"P", "a", "r", "a", SP, "A", ".", NL, NL, "P", "a", "r", "a", SP, "B", ".">>
ScenarioOptions == [chunkSize |-> 20, chunkOverlap |-> 5, preserveParagraphs |-> TRUE]

Texts == SeqsUpTo(TextAlphabet, MaxText) \cup {ScenarioText}
ChunkingOptions ==
    [chunkSize : 1..MaxChunkSize, chunkOverlap : {0, 1, WordBudget},
     preserveParagraphs : BOOLEAN] \cup {ScenarioOptions}

\* the length of the longest prefix of s made of white space
RECURSIVE WhiteRun(_)
WhiteRun(s) == IF s /= <<>> /\ IsWhite(Head(s)) THEN 1 + WhiteRun(Tail(s)) ELSE 0

\* the last position up to n at which s has a line break; 0 when it has none
RECURSIVE LastBreak(_, _)
LastBreak(s, n) == IF n = 0 THEN 0 ELSE IF s[n] = NL THEN n ELSE LastBreak(s, n - 1)

\* the length of the match of /\n\s*\n/ at the start of s; 0 when there is none
BlankLine(s) ==
    IF s /= <<>> /\ Head(s) = NL /\ LastBreak(s, WhiteRun(s)) > 1
    THEN LastBreak(s, WhiteRun(s)) ELSE 0

\* text.split(/\n\s*\n/)
RECURSIVE SplitParagraphs(_, _)
SplitParagraphs(s, cur) ==
    IF s = <<>> THEN <<cur>>
    ELSE IF BlankLine(s) > 0 THEN <<cur>> \o SplitParagraphs(Drop(s, BlankLine(s)), <<>>)
    ELSE SplitParagraphs(Tail(s), Append(cur, Head(s)))

\* currentChunk.split(' ')
RECURSIVE SplitSpaces(_, _)
SplitSpaces(s, cur) ==
    IF s = <<>> THEN <<cur>>
    ELSE IF Head(s) = SP THEN <<cur>> \o SplitSpaces(Tail(s), <<>>)
    ELSE SplitSpaces(Tail(s), Append(cur, Head(s)))

\* words.join(' ')
RECURSIVE JoinSpaces(_)
JoinSpaces(words) ==
    IF words = <<>> THEN <<>>
    ELSE IF Len(words) = 1 THEN words[1]
    ELSE words[1] \o <<SP>> \o JoinSpaces(Tail(words))

\* words.slice(-n): the last n elements; -0 is 0, so slice(-0) is the whole array
SliceLast(words, n) ==
    IF n = 0 \/ n >= Len(words) THEN words
    ELSE SubSeq(words, Len(words) - n + 1, Len(words))

\* text.substring(from, to): both ends are clamped to 0..length
Clamp(n, len) == IF n < 0 THEN 0 ELSE IF n > len THEN len ELSE n
Substring(s, from, to) == SubSeq(s, Clamp(from, Len(s)) + 1, Clamp(to, Len(s)))

\* no creation has failed
NoChunk == 0 - 1

InitIngest ==
    /\ StoreIdle
    /\ call \in [kind : {"ingest"}, text : Texts, options : ChunkingOptions,
                 pc : {"call"}, paragraphs : {<<>>}, currentChunk : {<<>>},
                 chunks : {<<>>}, i : {0}, seeded : {0}, seeds : {<<>>},
                 closed : {<<>>}, index : {0}, objects : {<<>>},
                 failed : {NoChunk}, result : {"none"}]
    /\ call.text = ScenarioText => call.options = ScenarioOptions

\* chunkText up to its loop
ChunkStarts ==
    /\ call.kind = "ingest" /\ call.pc = "call"
    /\ call' = IF Len(call.text) = 0 THEN [call EXCEPT !.pc = "chunked"]
               ELSE IF call.options.preserveParagraphs
               THEN [call EXCEPT !.pc = "paragraphs",
                                 !.paragraphs = SplitParagraphs(call.text, <<>>)]
               ELSE [call EXCEPT !.pc = "window"]
    /\ UNCHANGED storeVars

\* the start of a new chunk keeps every paragraph but the one that closed the last
SeedOnly(c, paragraph) ==
    LET closes == c.currentChunk /= <<>>
                     /\ Len(c.currentChunk) + Len(paragraph) > c.options.chunkSize
        lastWords == SplitSpaces(c.currentChunk, <<>>)
        overlapWordCount == c.options.chunkOverlap \div WordBudget
        seed == JoinSpaces(SliceLast(lastWords, overlapWordCount)) \o <<SP>>
    IN  IF closes
        THEN [c EXCEPT !.chunks = Append(c.chunks, Trim(c.currentChunk)),
                       !.closed = Append(c.closed, c.currentChunk),
                       !.seeds = Append(c.seeds, c.seeded),
                       !.seeded = Len(seed),
                       !.currentChunk = seed,
                       !.paragraphs = Tail(c.paragraphs)]
        ELSE [c EXCEPT !.currentChunk = c.currentChunk \o paragraph \o <<NL, NL>>,
                       !.paragraphs = Tail(c.paragraphs)]

\* the chunk is closed before every paragraph, whatever the lengths
ClosesEveryTime(c, paragraph) ==
    LET closes == c.currentChunk /= <<>>
        lastWords == SplitSpaces(c.currentChunk, <<>>)
        overlapWordCount == c.options.chunkOverlap \div WordBudget
        seed == JoinSpaces(SliceLast(lastWords, overlapWordCount)) \o <<SP>>
    IN  IF closes
        THEN [c EXCEPT !.chunks = Append(c.chunks, Trim(c.currentChunk)),
                       !.closed = Append(c.closed, c.currentChunk),
                       !.seeds = Append(c.seeds, c.seeded),
                       !.seeded = Len(seed),
                       !.currentChunk = seed \o paragraph \o <<NL, NL>>,
                       !.paragraphs = Tail(c.paragraphs)]
        ELSE [c EXCEPT !.currentChunk = c.currentChunk \o paragraph \o <<NL, NL>>,
                       !.paragraphs = Tail(c.paragraphs)]

\* one iteration of `for (const paragraph of paragraphs)`. seeded is the length
\* of the overlap that starts currentChunk; closed and seeds keep, for every chunk
\* pushed, the buffer it was trimmed from and the length of its overlap.
AfterParagraph(c, paragraph) ==
    LET closes == c.currentChunk /= <<>>
                     /\ Len(c.currentChunk) + Len(paragraph) > c.options.chunkSize
        lastWords == SplitSpaces(c.currentChunk, <<>>)
        overlapWordCount == c.options.chunkOverlap \div WordBudget
        seed == JoinSpaces(SliceLast(lastWords, overlapWordCount)) \o <<SP>>
    IN  IF closes
        THEN [c EXCEPT !.chunks = Append(c.chunks, Trim(c.currentChunk)),
                       !.closed = Append(c.closed, c.currentChunk),
                       !.seeds = Append(c.seeds, c.seeded),
                       !.seeded = Len(seed),
                       !.currentChunk = seed \o paragraph \o <<NL, NL>>,
                       !.paragraphs = Tail(c.paragraphs)]
        ELSE [c EXCEPT !.currentChunk = c.currentChunk \o paragraph \o <<NL, NL>>,
                       !.paragraphs = Tail(c.paragraphs)]

ParagraphStep ==
    /\ call.kind = "ingest" /\ call.pc = "paragraphs"
    /\ call.paragraphs /= <<>>
    /\ call' = AfterParagraph(call, Head(call.paragraphs))
    /\ UNCHANGED storeVars

\* after the loop: "Add the last chunk if not empty"
ParagraphsEnd ==
    /\ call.kind = "ingest" /\ call.pc = "paragraphs"
    /\ call.paragraphs = <<>>
    /\ call' = IF Trim(call.currentChunk) /= <<>>
               THEN [call EXCEPT !.pc = "chunked",
                                 !.chunks = Append(call.chunks, Trim(call.currentChunk)),
                                 !.closed = Append(call.closed, call.currentChunk),
                                 !.seeds = Append(call.seeds, call.seeded)]
               ELSE [call EXCEPT !.pc = "chunked"]
    /\ UNCHANGED storeVars

\* one iteration of `while (i < text.length)`
AfterWindow(c) ==
    [c EXCEPT !.chunks = Append(c.chunks,
                                Substring(c.text, c.i, c.i + c.options.chunkSize)),
              !.i = c.i + (c.options.chunkSize - c.options.chunkOverlap)]

WindowStep ==
    /\ call.kind = "ingest" /\ call.pc = "window"
    /\ call.i < Len(call.text)
    /\ Len(call.chunks) < MaxChunks
    /\ call' = AfterWindow(call)
    /\ UNCHANGED storeVars

WindowEnds ==
    /\ call.kind = "ingest" /\ call.pc = "window"
    /\ ~(call.i < Len(call.text))
    /\ call' = [call EXCEPT !.pc = "chunked"]
    /\ UNCHANGED storeVars

NextIngest ==
    \/ ChunkStarts
    \/ ParagraphStep
    \/ ParagraphsEnd
    \/ WindowStep
    \/ WindowEnds

SpecIngest == InitIngest /\ [][NextIngest]_vars

\* storeDocument after chunkText: one object per chunk. index is the `i` of its
\* loop, objects the objects created in the vector store, in the order of their
\* creation, failed the index of the chunk whose creation was rejected.
StoredChunk(c) ==
    [content |-> c.chunks[c.index + 1], chunkIndex |-> c.index,
     totalChunks |-> Len(c.chunks)]

AfterCreate(c) ==
    [c EXCEPT !.objects = Append(c.objects, StoredChunk(c)), !.index = c.index + 1]

\* a rejected creation is logged and the loop goes on with the next chunk
SkipsTheChunk(c) ==
    [c EXCEPT !.index = c.index + 1]

\* `catch (error)`: the rejection leaves the loop and storeDocument returns false
AfterFailure(c) ==
    [c EXCEPT !.pc = "returned", !.result = "false", !.failed = c.index]

\* `await client.data.creator()...do()` resolves
CreateSucceeds ==
    /\ call.kind = "ingest" /\ call.pc = "chunked"
    /\ call.index < Len(call.chunks)
    /\ call' = AfterCreate(call)
    /\ UNCHANGED storeVars

\* `await client.data.creator()...do()` rejects
CreateFails ==
    /\ call.kind = "ingest" /\ call.pc = "chunked"
    /\ call.index < Len(call.chunks)
    /\ call' = AfterFailure(call)
    /\ UNCHANGED storeVars

\* the loop is over: `return true`
StoreReturns ==
    /\ call.kind = "ingest" /\ call.pc = "chunked"
    /\ ~(call.index < Len(call.chunks))
    /\ call' = [call EXCEPT !.pc = "returned", !.result = "true"]
    /\ UNCHANGED storeVars

NextStore ==
    \/ ChunkStarts
    \/ ParagraphStep
    \/ ParagraphsEnd
    \/ WindowStep
    \/ WindowEnds
    \/ CreateSucceeds
    \/ CreateFails
    \/ StoreReturns

SpecStore == InitIngest /\ [][NextStore]_vars

\* C22: chunkText terminates for every document and configuration: every
\* iteration of the sliding window moves the window forward by at least one
\* character, also when chunkOverlap is chunkSize or more, and every iteration
\* over the paragraphs takes one paragraph off the ones that are left.
C22_ChunkingAdvances ==
    [][(call.kind = "ingest" /\ call.pc \in {"paragraphs", "window"}) =>
          /\ call.pc = "window" /\ call'.pc = "window" => call'.i > call.i
          /\ call.pc = "paragraphs" /\ call'.pc = "paragraphs"
                => Len(call'.paragraphs) < Len(call.paragraphs)]_vars

\* chunkText has returned for the two-paragraph document of the scenario
ScenarioChunked ==
    /\ call.kind = "ingest" /\ call.pc = "chunked"
    /\ call.text = ScenarioText /\ call.options = ScenarioOptions

\* C23: the text "Para A.\n\nPara B." chunked by paragraphs with chunkSize 20 and
\* chunkOverlap 5 gives exactly two chunks, and the second chunk begins with an
\* overlap taken from the end of the first.
C23_ScenarioGivesTwoChunks ==
    ScenarioChunked =>
        /\ Len(call.chunks) = 2
        /\ \E n \in 1..Len(call.chunks[1]) :
              /\ n <= Len(call.chunks[2])
              /\ SubSeq(call.chunks[2], 1, n)
                    = SubSeq(call.chunks[1], Len(call.chunks[1]) - n + 1,
                             Len(call.chunks[1]))

\* C23 as amended: the text "Para A.\n\nPara B." chunked by paragraphs with
\* chunkSize 20 and chunkOverlap 5 gives exactly one chunk, the whole text; no
\* overlap is injected.
C23_ScenarioGivesOneChunk ==
    ScenarioChunked => call.chunks = <<ScenarioText>> /\ call.seeds = <<0>>

C23_Witness == ScenarioChunked /\ Len(call.chunks) = 1 /\ call.paragraphs = <<>>

\* the paragraphs of a list that are more than white space, each one trimmed
Clean(paragraphs) ==
    SelectSeq([k \in 1..Len(paragraphs) |-> Trim(paragraphs[k])],
              LAMBDA paragraph : paragraph /= <<>>)

\* chunk k without the overlap injected at its start: of the seeds[k] characters
\* that started the buffer, those that the trim left at the start of the chunk
Body(k) ==
    LET kept == call.seeds[k] - WhiteRun(call.closed[k])
        gone == IF kept < 0 THEN 0
                ELSE IF kept > Len(call.chunks[k]) THEN Len(call.chunks[k]) ELSE kept
    IN  Drop(call.chunks[k], gone)

\* the paragraphs read from the chunks k, k + 1, ... in output order
RECURSIVE ReadFrom(_)
ReadFrom(k) ==
    IF k > Len(call.chunks) THEN <<>>
    ELSE Clean(SplitParagraphs(Body(k), <<>>)) \o ReadFrom(k + 1)

\* C24: in paragraph-preserving mode the chunks, each without the overlap that
\* was injected at its start, read in output order give the paragraphs of the
\* document, every one once and in the order of the document.
C24_ChunksKeepTheParagraphs ==
    (call.kind = "ingest" /\ call.pc = "chunked"
        /\ call.options.preserveParagraphs /\ call.text /= <<>>) =>
        ReadFrom(1) = Clean(SplitParagraphs(call.text, <<>>))

\* two paragraphs in two chunks, the second chunk starting with a word carried
\* over from the first
C24_Witness ==
    /\ call.kind = "ingest" /\ call.pc = "chunked" /\ call.options.preserveParagraphs
    /\ Len(call.chunks) = 2 /\ call.seeds[2] > 1
    /\ Len(Clean(SplitParagraphs(call.text, <<>>))) = 2
    /\ Len(Body(2)) < Len(call.chunks[2])

\* s is a prefix of t
IsPrefix(s, t) == Len(s) <= Len(t) /\ SubSeq(t, 1, Len(s)) = s

\* the messages exposed for the active conversation are the ones its messageIds
\* name, in the order of messageIds
ExposedInOrder ==
    LET active == useActiveConversation(state)
    IN  active.has =>
            [k \in 1..Len(active.messages) |-> active.messages[k].id]
                = active.conversation.messageIds

\* C25: the messages exposed for the active conversation are exactly those named
\* by its messageIds, in that order, in every state; and every step other than
\* clearConversation leaves the messageIds of each conversation a prefix of what
\* they are after the step.
C25_MessageIdsAreAppendOnly ==
    [][/\ ExposedInOrder /\ ExposedInOrder'
       /\ ~clearConversation =>
             \A i \in 1..Len(state.conversations), j \in 1..Len(state'.conversations) :
                 state.conversations[i].id = state'.conversations[j].id
                    => IsPrefix(state.conversations[i].messageIds,
                                state'.conversations[j].messageIds)]_vars

\* a conversation of three messages is active while another conversation exists
C25_Witness ==
    /\ Len(state.conversations) >= 2
    /\ useActiveConversation(state).has
    /\ Len(useActiveConversation(state).messages) >= 3
    /\ Len(state.messages) > Len(useActiveConversation(state).messages)

\* the position of the last user-role message of a list; 0 when there is none
RECURSIVE LastUserAt(_, _)
LastUserAt(messages, n) ==
    IF n = 0 THEN 0
    ELSE IF messages[n].role = "user" THEN n ELSE LastUserAt(messages, n - 1)

\* C26: for every call with a text, the list passed to the generation service
\* (the route's list before the system message is set) has this call's text as
\* its last user-role message, after the conversation's earlier messages in
\* their order.
C26_GenerationGetsThisTurn ==
    \A t \in Turns :
        turns[t].request.endpoint = "streaming" =>
            LET out == OllamaMessages(turns[t].request)
                last == LastUserAt(out, Len(out))
            IN  /\ last >= 1
                /\ out[last].content = turns[t].content
                /\ IsPrefix(apiMessages(turns[t].seen), SubSeq(out, 1, last - 1))
                /\ LastUserMessage(turns[t].request) = turns[t].content

\* the call of sendMessage that drew a message id
TurnOf(id) == id \div IdBase

\* the conversations that refer to a message created by call t
HomesOf(t) ==
    {i \in 1..Len(state.conversations) :
        \E k \in 1..Len(state.conversations[i].messageIds) :
            TurnOf(state.conversations[i].messageIds[k]) = t}

\* C27: the messages created by one call of sendMessage (user message, upload
\* confirmations, placeholder, failure message) are all in one conversation,
\* also when the active conversation changes while the call is in flight.
C27_OneTurnOneConversation ==
    \A t \in Turns : Cardinality(HomesOf(t)) <= 1

\* ---------------------------------------------------------------------------
\* The response stream of POST /api/chat/streaming
\* ---------------------------------------------------------------------------

\* the chunks the generation service may yield
ChunkTexts == {<<"a">>, <<"b">>, <<"a", "b">>}

TextFrame(text) == [kind |-> "text", v |-> text]
DoneFrame == [kind |-> "done", v |-> <<>>]
\* { error: 'Streaming error occurred' }, { error: 'Failed to initialize stream' }
ErrorFrame == [kind |-> "error", v |-> <<"e">>]
NoFrame == [kind |-> "none", v |-> <<>>]

\* handler: where POST is (calling ollama.stream, awaiting the write of its catch
\* block, returned). pump: where the async function that copies the chunks is.
\* yielded: the chunks the generation has yielded. pending: the frame of the
\* writer.write that has not resolved yet. frames: the frames the stream has
\* handed to its reader. A TransformStream starts with backpressure: a write
\* resolves only when the readable side is read, and the readable side has a
\* reader only once the Response that holds it has been returned.
InitEndpoint ==
    /\ StoreIdle
    /\ call = [kind |-> "endpoint", handler |-> "stream", pump |-> "none",
               fate |-> "open", yielded |-> <<>>, pending |-> NoFrame,
               frames |-> <<>>, returned |-> FALSE, reading |-> FALSE,
               closed |-> FALSE]

\* ollama.stream resolves: the copying function runs up to its first await and
\* the handler returns the Response
GenerationStarts ==
    /\ call.kind = "endpoint" /\ call.handler = "stream"
    /\ call' = [call EXCEPT !.handler = "returned", !.pump = "next",
                            !.returned = TRUE]
    /\ UNCHANGED storeVars

\* ollama.stream rejects: the catch block of the handler starts its write
GenerationRefuses ==
    /\ call.kind = "endpoint" /\ call.handler = "stream"
    /\ call' = [call EXCEPT !.handler = "write", !.fate = "refused",
                            !.pending = ErrorFrame]
    /\ UNCHANGED storeVars

\* the generation yields a chunk: the write of its text frame starts
Yields ==
    /\ call.kind = "endpoint" /\ call.pump = "next"
    /\ Len(call.yielded) < MaxFrames
    /\ \E text \in ChunkTexts :
          call' = [call EXCEPT !.pump = "write", !.yielded = Append(call.yielded, text),
                              !.pending = TextFrame(text)]
    /\ UNCHANGED storeVars

\* the generation is complete: the write of the end marker starts
Completes ==
    /\ call.kind = "endpoint" /\ call.pump = "next"
    /\ call' = [call EXCEPT !.pump = "last", !.fate = "complete",
                            !.pending = DoneFrame]
    /\ UNCHANGED storeVars

\* the generation throws: the write of the error frame starts
Throws ==
    /\ call.kind = "endpoint" /\ call.pump = "next"
    /\ call' = [call EXCEPT !.pump = "last", !.fate = "failed",
                            !.pending = ErrorFrame]
    /\ UNCHANGED storeVars

\* the client reads the body of the response it has received
ReaderReads ==
    /\ call.kind = "endpoint"
    /\ call.returned /\ ~call.reading /\ ~call.closed
    /\ call' = [call EXCEPT !.reading = TRUE]
    /\ UNCHANGED storeVars

\* the pending frame goes to the read that waits for it and the write resolves:
\* the code after the await runs (the next chunk is awaited, or writer.close()
\* is called and, in the handler, the Response is returned)
Written(c) ==
    LET c1 == [c EXCEPT !.frames = Append(c.frames, c.pending), !.pending = NoFrame,
                        !.reading = FALSE]
    IN  IF c.handler = "write"
        THEN [c1 EXCEPT !.handler = "returned", !.returned = TRUE, !.closed = TRUE]
        ELSE IF c.pump = "write" THEN [c1 EXCEPT !.pump = "next"]
        ELSE [c1 EXCEPT !.pump = "done", !.closed = TRUE]

WriteResolves ==
    /\ call.kind = "endpoint" /\ call.pending /= NoFrame
    /\ call.reading
    /\ call' = Written(call)
    /\ UNCHANGED storeVars

NextEndpoint ==
    \/ GenerationStarts
    \/ GenerationRefuses
    \/ Yields
    \/ Completes
    \/ Throws
    \/ ReaderReads
    \/ WriteResolves

\* The runtime runs every continuation that is ready, the generation settles,
\* and the client reads the body of a response it has received.
SpecEndpoint == InitEndpoint /\ [][NextEndpoint]_vars /\ WF_vars(NextEndpoint)

\* the frames handed to the reader so far are as a response may begin: the text
\* frames of the chunks yielded, in order, then at most one terminal frame, the
\* end marker only after a complete generation, the error frame only after a
\* failed one
WellFramed ==
    LET n == Len(call.frames)
        texts == IF n > 0 /\ call.frames[n].kind /= "text" THEN n - 1 ELSE n
    IN  /\ texts <= Len(call.yielded)
        /\ \A k \in 1..texts : call.frames[k] = TextFrame(call.yielded[k])
        /\ texts < n =>
              /\ texts = Len(call.yielded)
              /\ call.frames[n].kind = "done" => call.fate = "complete"
              /\ call.frames[n].kind = "error" => call.fate \in {"failed", "refused"}
        /\ call.closed => texts < n

\* the response has ended with its terminal frame
Terminated ==
    /\ call.closed
    /\ call.frames /= <<>>
    /\ call.frames[Len(call.frames)].kind \in {"done", "error"}

\* C28: the response stream is one text frame per generation chunk, in order,
\* followed by exactly one terminal frame: the end marker when the generation
\* completed, an error frame when it failed to start or failed midway; never
\* both, and nothing after the terminal frame. Whenever the endpoint has no
\* step left to take, the response has ended with that frame.
C28_StreamEndsWithOneTerminalFrame ==
    call.kind = "endpoint" =>
        /\ WellFramed
        /\ ~(ENABLED NextEndpoint) => Terminated

\* the part of C28 the code keeps: what the reader has received is always the
\* beginning of such a stream, and a generation that started ends with its
\* terminal frame
C28_StartedStreamIsWellFramed ==
    call.kind = "endpoint" =>
        /\ WellFramed
        /\ (~(ENABLED NextEndpoint) /\ call.fate /= "refused") => Terminated

\* the white-space-delimited words of a text
RECURSIVE WordsOf(_, _)
WordsOf(s, cur) ==
    IF s = <<>> THEN (IF cur = <<>> THEN <<>> ELSE <<cur>>)
    ELSE IF IsWhite(Head(s))
    THEN (IF cur = <<>> THEN <<>> ELSE <<cur>>) \o WordsOf(Tail(s), <<>>)
    ELSE WordsOf(Tail(s), Append(cur, Head(s)))

\* the last n of the words, none when n is 0
LastWords(words, n) ==
    IF n >= Len(words) THEN words
    ELSE SubSeq(words, Len(words) - n + 1, Len(words))

\* this step of the paragraph loop closes the current chunk
ClosesChunk ==
    /\ call.kind = "ingest" /\ call.pc = "paragraphs"
    /\ call'.pc = "paragraphs"
    /\ Len(call'.chunks) = Len(call.chunks) + 1

\* C29: in paragraph-preserving mode, when the current chunk is closed the next
\* chunk starts with exactly the last floor(chunkOverlap / 7) words of the closed
\* chunk, followed by the paragraph that did not fit; with chunkOverlap < 7 no
\* word of the closed chunk is carried over.
C29_OverlapIsTheLastWords ==
    [][ClosesChunk =>
        WordsOf(call'.currentChunk, <<>>) =
            LastWords(WordsOf(call.currentChunk, <<>>),
                      call.options.chunkOverlap \div WordBudget)
            \o WordsOf(Head(call.paragraphs), <<>>)]_vars

\* C30: when storeDocument returns, the objects it created are chunks 0..k-1 of
\* the chunker's output, in that order, each with chunkIndex equal to its
\* position and totalChunks equal to the number n of chunks; k = n when it
\* returned true, and when it returned false k is the index of the first chunk
\* whose creation failed.
C30_StoredChunksAreAPrefix ==
    (call.kind = "ingest" /\ call.pc = "returned") =>
        LET n == Len(call.chunks)
            k == Len(call.objects)
        IN  /\ k <= n
            /\ \A j \in 1..k :
                  call.objects[j] = [content |-> call.chunks[j], chunkIndex |-> j - 1,
                                     totalChunks |-> n]
            /\ call.result = "true" => (k = n /\ call.failed = NoChunk)
            /\ call.result = "false" => (k < n /\ call.failed = k)

\* a document of three chunks whose second creation failed
C30_Witness ==
    /\ call.kind = "ingest" /\ call.pc = "returned"
    /\ call.result = "false"
    /\ Len(call.chunks) = 3
    /\ Len(call.objects) = 1
====
